---- MODULE Spec2Model ----
(***************************************************************************)
(* Model of the MCP command-line chat client (MCPClient and                *)
(* FileSystemMCPClient): module load, main, connectToServer, chatLoop and  *)
(* processQuery, with the chat model endpoint (openai.chat.completions)    *)
(* and the tool server (mcp.callTool) as the environment.  The two clients *)
(* share processQuery, chatLoop and cleanup line for line; the names are   *)
(* those of MCPClient.                                                     *)
(*                                                                         *)
(* One action is one run of the code between two awaits: the reply (or     *)
(* rejection) of the awaited call arrives and the code runs on to the next *)
(* await or to the end of the handler.                                     *)
(***************************************************************************)
EXTENDS Integers, Sequences, FiniteSets, TLC

VARIABLES
    OPENAI_API_KEY,   \* process.env.OPENAI_API_KEY of the client, "" when unset
    XINGZHI_API_KEY,  \* process.env.XINGZHI_API_KEY, "" when unset
    server,           \* the tool server process spawned by the transport
    connected,        \* how connectToServer ended: "no" while it has not
    toolsResult,      \* connectToServer: toolsResult.tools
    pc,               \* where the process is waiting
    tools,            \* this.tools
    line,             \* chatLoop: const message (the line read)
    messages,         \* processQuery: const messages
    response,         \* processQuery: the first completion's response
    finalText,        \* processQuery: const finalText
    ci,               \* index of the choice the outer for loop is in
    ti,               \* index of the tool call the inner for loop is in
    call,             \* arguments of the mcp.callTool being awaited
    gwLog,            \* requests passed to completions.create in this query
    gwReplies,        \* what each of them returned
    attempts,         \* tool calls the inner loop has worked on in this query
    chatResponse,     \* chatLoop: const response (what processQuery returned)
    lastOutcome,      \* how the query just processed ended
    loadingInterval,  \* chatLoop: number of setInterval timers that are active
    closed,           \* mcp.close() has run
    exitCode,         \* exit status of the process, -1 while it runs
    queryNo,          \* number of queries processed (saturating)
    weatherPc,        \* weather server: where the get-weather handler is
    toolInput,        \* get-weather handler: { city, days, language, unit }
    urlResult,        \* get-weather handler: const urlResult
    fetched,          \* weather server: URLs passed to fetch
    toolOutput        \* weather server: how the last get-weather call ended

vars == <<OPENAI_API_KEY, XINGZHI_API_KEY, server, connected, toolsResult, pc, tools, line, messages, response, finalText, ci, ti, call, gwLog,
          gwReplies, attempts, chatResponse, lastOutcome, loadingInterval,
          closed, exitCode, queryNo, weatherPc, toolInput, urlResult, fetched,
          toolOutput>>

-----------------------------------------------------------------------------
(* Bounds *)

MaxChoices == 2      \* candidates in one completion response
MaxToolCalls == 2    \* tool calls carried by one completion response
MaxQueries == 1      \* queries counted by queryNo
MaxDescriptors == 2  \* tools in the list the adapter is given on its own

-----------------------------------------------------------------------------
(* Values of the environment *)

Min(a, b) == IF a < b THEN a ELSE b

\* process.env.X of a variable that is not set
Undefined == "undefined"

\* tool calls of a reply; function.arguments is JSON text as the model wrote it
ToolCalls ==
    { [function |-> [name |-> "get-weather", arguments |-> "{ \"city\": \"bj\" }"]],
      [function |-> [name |-> "read_file", arguments |-> "{\"path\":\"a\"}"]],
      [function |-> [name |-> "get-weather", arguments |-> "{bad"]] }

Contents == {"hello"}

HasContentField(m) == "content" \in DOMAIN m
HasToolCallsField(m) == "tool_calls" \in DOMAIN m

\* choice.message with k tool calls: content and tool_calls may each be
\* absent; the endpoint leaves tool_calls out when there are none
MessagesWith(k) ==
    IF k = 0
    THEN [role : {"assistant"}] \cup [role : {"assistant"}, content : Contents]
    ELSE [role : {"assistant"}, tool_calls : [1..k -> ToolCalls]]
         \cup [role : {"assistant"}, content : Contents, tool_calls : [1..k -> ToolCalls]]

\* lists of n choices that carry at most budget tool calls in all
RECURSIVE ChoiceLists(_, _)
ChoiceLists(n, budget) ==
    IF n = 0 THEN {<<>>}
    ELSE UNION { { <<[message |-> m]>> \o rest :
                     m \in MessagesWith(k), rest \in ChoiceLists(n - 1, budget - k) } :
                 k \in 0..budget }

\* responses of the first completion call
FirstResponses ==
    { [choices |-> cs] : cs \in UNION { ChoiceLists(n, MaxToolCalls) : n \in 1..MaxChoices } }

\* responses of a follow-up completion call
FollowUpResponses ==
    { [choices |-> <<[message |-> [role |-> "assistant", content |-> ""]]>>],
      [choices |-> <<[message |-> [role |-> "assistant", content |-> "narrated",
                                   tool_calls |-> <<[function |-> [name |-> "read_file",
                                                    arguments |-> "{\"path\":\"a\"}"]]>>]],
                     [message |-> [role |-> "assistant", content |-> "second"]]>>] }

GatewayErrors == {"429 rate limit"}

\* what mcp.callTool resolves to
ToolResults ==
    { [content |-> <<[type |-> "text", text |-> "sunny"]>>, isError |-> FALSE],
      [content |-> <<[type |-> "text", text |-> "tool failed"]>>, isError |-> TRUE] }

ToolErrors == {"Connection closed"}

\* what mcp.listTools resolves to
DescriptorLists ==
    { <<[name |-> "get-weather", description |-> "forecast", inputSchema |-> "S1"],
        [name |-> "read_file", description |-> "read", inputSchema |-> "S2"]>> }

\* tool descriptors a server may advertise; the description is optional
Descriptors ==
    [name : {"x", "y", "z"}, inputSchema : {"S1", "S2"}]
    \cup [name : {"x", "y", "z"}, description : {"d"}, inputSchema : {"S1", "S2"}]

\* what mcp.listTools may resolve to, for the adapter on its own
AllDescriptorLists == UNION { [1..n -> Descriptors] : n \in 0..MaxDescriptors }

\* lines typed at the prompt, as sequences of characters
QuitCasings ==
    { <<a, b, c, d>> : a \in {"q", "Q"}, b \in {"u", "U"},
                       c \in {"i", "I"}, d \in {"t", "T"} }

OtherLines == { <<"h", "i">>, <<"q", "u", "i", "t", " ">> }

Lines == QuitCasings \cup OtherLines

-----------------------------------------------------------------------------
(* Pure functions *)

\* String.prototype.toLowerCase, character by character
LowerChar(c) ==
    CASE c = "Q" -> "q" [] c = "U" -> "u" [] c = "I" -> "i" [] c = "T" -> "t"
      [] c = "H" -> "h" [] OTHER -> c

ToLowerCase(s) == [i \in 1..Len(s) |-> LowerChar(s[i])]

IsQuitExact(message) == message = <<"q", "u", "i", "t">>

\* chatLoop: message.toLowerCase() === "quit"
IsQuit(message) == ToLowerCase(message) = <<"q", "u", "i", "t">>

\* if (!OPENAI_API_KEY), if (!API_KEY): unset and "" are both falsy
KeyMissingNever(key) == FALSE

KeyMissing(key) == key \in {Undefined, ""}

\* connectToServer: env: {XINGZHI_API_KEY: process.env.XINGZHI_API_KEY || ""}
ServerEnvKey(key) == IF key \in {Undefined, ""} THEN "" ELSE key

\* chatLoop: showLoading starts one timer, clearLoading stops it
showLoading(active) == active + 1

clearLoadingSkipped(active) == active

clearLoading(active) == active - 1

\* JSON.parse of a tool call's arguments
JSONParse(text) ==
    CASE text = "{ \"city\": \"bj\" }" -> [ok |-> TRUE, value |-> [city |-> "bj"]]
      [] text = "{\"path\":\"a\"}" -> [ok |-> TRUE, value |-> [path |-> "a"]]
      [] OTHER -> [ok |-> FALSE, message |-> "Unexpected token b in JSON at position 1"]

\* JSON.stringify of a parsed arguments object
JSONStringify(value) ==
    IF DOMAIN value = {"city"} THEN "{\"city\":\"" \o value.city \o "\"}"
    ELSE "{\"path\":\"" \o value.path \o "\"}"

\* the trace line pushed after a tool call
TraceLine(toolName, toolArgs) ==
    "[Calling tool " \o toolName \o " with args " \o JSONStringify(toolArgs) \o "]"

\* Array.prototype.join("\n")
RECURSIVE Join(_)
Join(parts) ==
    IF parts = <<>> THEN ""
    ELSE IF Len(parts) = 1 THEN parts[1]
    ELSE parts[1] \o "\n" \o Join(Tail(parts))

\* tool.description: undefined when the descriptor has none
Property(object, key) == IF key \in DOMAIN object THEN object[key] ELSE Undefined

\* connectToServer: the callback of toolsResult.tools.map
AdaptTool(tool) ==
    [type |-> "function",
     function |-> [name |-> tool.name,
                   description |-> Property(tool, "description"),
                   parameters |-> tool.inputSchema]]

\* connectToServer: toolsResult.tools.map(...)
AdaptToolsDescribedOnly(descriptors) ==
    LET kept == SelectSeq(descriptors, LAMBDA d : "description" \in DOMAIN d)
    IN  [i \in 1..Len(kept) |-> AdaptTool(kept[i])]

AdaptTools(descriptors) == [i \in 1..Len(descriptors) |-> AdaptTool(descriptors[i])]

\* processQuery: const messages = [{role: "user", content: query}]
InitialMessagesLeaky(previous, query) ==
    Append(previous, [role |-> "user", content |-> query])

InitialMessages(previous, query) == <<[role |-> "user", content |-> query]>>

\* processQuery: the request of the first completion call
FirstRequest(msgs, registry) ==
    [model |-> "deepseek-chat", max_tokens |-> 1000, messages |-> msgs, tools |-> registry]

\* processQuery: the request of a follow-up completion call
FollowUpRequestWithTools(msgs) ==
    [model |-> "deepseek-chat", max_tokens |-> 1000, messages |-> msgs, tools |-> tools]

FollowUpRequest(msgs) ==
    [model |-> "deepseek-chat", max_tokens |-> 1000, messages |-> msgs]

\* if (message.content): absent and "" are both falsy
ContentTruthy(m) == HasContentField(m) /\ m.content # ""

\* processQuery: messages.push({role: "user", content: result.content})
PushToolResultDropped(msgs, result) == msgs

PushToolResultInFront(msgs, result) ==
    <<[role |-> "user", content |-> result.content]>> \o msgs

PushToolResult(msgs, result) ==
    Append(msgs, [role |-> "user", content |-> result.content])

\* processQuery: finalText.push(`[Calling tool ...]`)
PushTraceSkipped(buffer, toolName, toolArgs) == buffer

PushTrace(buffer, toolName, toolArgs) == Append(buffer, TraceLine(toolName, toolArgs))

\* for (const toolCall of message.tool_calls): the t-th element visited
ToolCallAtReversed(tool_calls, t) == tool_calls[Len(tool_calls) - t + 1]

ToolCallAt(tool_calls, t) == tool_calls[t]

\* processQuery: catch (error) { return `Error: ${error.message}` }
ProcessQueryCatchSwallow(message, buffer) == Join(buffer)

ProcessQueryCatchWithBuffer(message, buffer) ==
    Join(Append(buffer, "Error: " \o message))

ProcessQueryCatch(message, buffer) == "Error: " \o message

\* processQuery: the two nested for loops, run from position (c, t) with
\* output buffer ft up to the next await, the return or a throw.
\* t = 0 is the top of the body of the outer loop for choice c.
RECURSIVE RunLoop(_, _, _, _)
RunLoop(choices, c, t, ft) ==
    IF c > Len(choices)
    THEN [kind |-> "return", ci |-> c, ti |-> 0, finalText |-> ft]
    ELSE LET message == choices[c].message IN
         IF t = 0
         THEN LET ft1 == IF ContentTruthy(message) THEN Append(ft, message.content) ELSE ft
              IN  IF HasToolCallsField(message)
                  THEN RunLoop(choices, c, 1, ft1)
                  ELSE RunLoop(choices, c + 1, 0, ft1)
         ELSE IF t > Len(message.tool_calls)
         THEN RunLoop(choices, c + 1, 0, ft)
         ELSE LET toolCall == ToolCallAt(message.tool_calls, t)
                  parsed == JSONParse(toolCall.function.arguments)
              IN  IF parsed.ok
                  THEN [kind |-> "callTool", ci |-> c, ti |-> t, finalText |-> ft,
                        toolCall |-> toolCall,
                        name |-> toolCall.function.name, arguments |-> parsed.value]
                  ELSE [kind |-> "throw", ci |-> c, ti |-> t, finalText |-> ft,
                        toolCall |-> toolCall, message |-> parsed.message]

-----------------------------------------------------------------------------
(* State *)

NoCall == [name |-> "none"]
NoResponse == [choices |-> <<>>]
NoInput == [city |-> "none"]
NoUrlResult == [success |-> FALSE, error |-> "none"]
NoOutput == [kind |-> "none"]

\* values of an API key in the environment: unset, empty, or set
KeyValues == {Undefined, "", "sk-key"}

Init ==
    /\ OPENAI_API_KEY \in KeyValues
    /\ XINGZHI_API_KEY \in KeyValues
    /\ server = "unspawned"
    /\ connected = "no"
    /\ toolsResult = <<>>
    /\ pc = "module"
    /\ tools = <<>>
    /\ line = <<>>
    /\ messages = <<>>
    /\ response = NoResponse
    /\ finalText = <<>>
    /\ ci = 0
    /\ ti = 0
    /\ call = NoCall
    /\ gwLog = <<>>
    /\ gwReplies = <<>>
    /\ attempts = <<>>
    /\ chatResponse = ""
    /\ lastOutcome = "none"
    /\ loadingInterval = 0
    /\ closed = FALSE
    /\ exitCode = -1
    /\ queryNo = 0
    /\ weatherPc = "idle"
    /\ toolInput = NoInput
    /\ urlResult = NoUrlResult
    /\ fetched = <<>>
    /\ toolOutput = NoOutput

queryVars == <<line, messages, response, finalText, ci, ti, call, gwLog,
               gwReplies, attempts, chatResponse, lastOutcome, loadingInterval,
               queryNo>>

envVars == <<OPENAI_API_KEY, XINGZHI_API_KEY>>

startVars == <<OPENAI_API_KEY, XINGZHI_API_KEY, server, connected, toolsResult>>

weatherVars == <<weatherPc, toolInput, urlResult, fetched, toolOutput>>

-----------------------------------------------------------------------------
(* Startup and shutdown *)

\* module top level: OPENAI_API_KEY unset, the module throws while loading
ModuleKeyMissing ==
    /\ pc = "module"
    /\ KeyMissing(OPENAI_API_KEY)
    /\ pc' = "exited"
    /\ exitCode' = 1
    /\ UNCHANGED <<tools, closed>>
    /\ UNCHANGED startVars
    /\ UNCHANGED weatherVars
    /\ UNCHANGED queryVars

\* main: process.argv.length < 3, print the usage and return
MainUsage ==
    /\ pc = "module"
    /\ ~KeyMissing(OPENAI_API_KEY)
    /\ pc' = "exited"
    /\ exitCode' = 0
    /\ UNCHANGED <<tools, closed>>
    /\ UNCHANGED startVars
    /\ UNCHANGED weatherVars
    /\ UNCHANGED queryVars

\* main: new MCPClient(), then connectToServer is awaited
MainStart ==
    /\ pc = "module"
    /\ ~KeyMissing(OPENAI_API_KEY)
    /\ pc' = "connecting"
    /\ UNCHANGED <<tools, closed, exitCode>>
    /\ UNCHANGED startVars
    /\ UNCHANGED weatherVars
    /\ UNCHANGED queryVars

\* connectToServer succeeds with the tool list taken from lists: the server
\* was spawned, passed its own key check and answered connect and listTools;
\* chatLoop starts and waits at rl.question
ConnectWith(lists) ==
    /\ pc = "connecting"
    /\ ~KeyMissing(ServerEnvKey(XINGZHI_API_KEY))
    /\ \E descriptors \in lists :
          /\ toolsResult' = descriptors
          /\ tools' = AdaptTools(descriptors)
    /\ server' = "running"
    /\ connected' = "yes"
    /\ pc' = "chat_read"
    /\ UNCHANGED <<closed, exitCode>>
    /\ UNCHANGED envVars
    /\ UNCHANGED weatherVars
    /\ UNCHANGED queryVars

ConnectToServer == ConnectWith(DescriptorLists)

\* the spawned weather server finds XINGZHI_API_KEY unset and exits with
\* status 1 while loading; mcp.connect rejects, connectToServer rethrows and
\* main's finally block awaits cleanup
ServerKeyMissing ==
    /\ pc = "connecting"
    /\ KeyMissing(ServerEnvKey(XINGZHI_API_KEY))
    /\ server' = "exit1"
    /\ connected' = "failed"
    /\ pc' = "cleanup"
    /\ UNCHANGED <<tools, toolsResult, closed, exitCode>>
    /\ UNCHANGED envVars
    /\ UNCHANGED weatherVars
    /\ UNCHANGED queryVars

\* a transport error: the script is refused or cannot be spawned (no server
\* process), or mcp.connect or mcp.listTools rejects with the server running;
\* connectToServer rethrows and main's finally block awaits cleanup
ConnectFailSwallowed ==
    /\ pc = "connecting"
    /\ \E s \in {"unspawned"} \cup (IF KeyMissing(ServerEnvKey(XINGZHI_API_KEY))
                                     THEN {} ELSE {"running"}) : server' = s
    /\ connected' = "failed"
    /\ pc' = "chat_read"
    /\ UNCHANGED <<tools, toolsResult, closed, exitCode>>
    /\ UNCHANGED envVars
    /\ UNCHANGED weatherVars
    /\ UNCHANGED queryVars

ConnectFail ==
    /\ pc = "connecting"
    /\ \E s \in {"unspawned"} \cup (IF KeyMissing(ServerEnvKey(XINGZHI_API_KEY))
                                     THEN {} ELSE {"running"}) : server' = s
    /\ connected' = "failed"
    /\ pc' = "cleanup"
    /\ UNCHANGED <<tools, toolsResult, closed, exitCode>>
    /\ UNCHANGED envVars
    /\ UNCHANGED weatherVars
    /\ UNCHANGED queryVars

\* main's finally block: await mcpClient.cleanup(); process.exit(0).
\* mcp.close() is taken to resolve; it ends a server that still runs.
CleanupSkipped ==
    /\ pc = "cleanup"
    /\ exitCode' = 0
    /\ pc' = "exited"
    /\ UNCHANGED <<tools, toolsResult, connected, server, closed>>
    /\ UNCHANGED envVars
    /\ UNCHANGED weatherVars
    /\ UNCHANGED queryVars

Cleanup ==
    /\ pc = "cleanup"
    /\ closed' = TRUE
    /\ server' = IF server = "running" THEN "killed" ELSE server
    /\ exitCode' = 0
    /\ pc' = "exited"
    /\ UNCHANGED <<tools, toolsResult, connected>>
    /\ UNCHANGED envVars
    /\ UNCHANGED weatherVars
    /\ UNCHANGED queryVars

-----------------------------------------------------------------------------
(* chatLoop and processQuery *)

\* processQuery returned (normally or from its catch block): chatLoop clears
\* the timer, prints the response and goes back to rl.question
Finish(value, outcome) ==
    /\ chatResponse' = value
    /\ lastOutcome' = outcome
    /\ loadingInterval' = clearLoading(loadingInterval)
    /\ pc' = "chat_read"
    /\ queryNo' = Min(queryNo + 1, MaxQueries)

\* the code after an await of processQuery, from the loop position in r
Resume(r, att) ==
    /\ finalText' = r.finalText
    /\ ci' = r.ci
    /\ ti' = r.ti
    /\ CASE r.kind = "callTool" ->
              /\ pc' = "await_tool"
              /\ call' = [name |-> r.name, arguments |-> r.arguments]
              /\ attempts' = att
              /\ UNCHANGED <<chatResponse, lastOutcome, loadingInterval, queryNo>>
         [] r.kind = "return" ->
              /\ call' = NoCall
              /\ attempts' = att
              /\ Finish(Join(r.finalText), "ok")
         [] r.kind = "throw" ->
              /\ call' = NoCall
              /\ attempts' = Append(att, [toolCall |-> r.toolCall, outcome |-> "badargs"])
              /\ Finish(ProcessQueryCatch(r.message, r.finalText), "error")

\* processQuery's catch block entered from an awaited call that rejected
Abort(message) ==
    /\ call' = NoCall
    /\ Finish(ProcessQueryCatch(message, finalText), "error")
    /\ UNCHANGED <<finalText, ci, ti>>

\* chatLoop: a line is read; "quit" breaks out of the loop, any other line
\* starts the timer and processQuery, which awaits the first completion.
\* The locals of the previous iteration are gone either way.
ReadLine ==
    /\ pc = "chat_read"
    /\ \E l \in Lines :
        /\ line' = l
        /\ IF IsQuit(l)
           THEN /\ pc' = "cleanup"
                /\ messages' = <<>>
                /\ gwLog' = <<>>
                /\ UNCHANGED loadingInterval
           ELSE /\ pc' = "await_first"
                /\ loadingInterval' = showLoading(loadingInterval)
                /\ messages' = InitialMessages(messages, l)
                /\ gwLog' = <<FirstRequest(messages', tools)>>
    /\ gwReplies' = <<>>
    /\ attempts' = <<>>
    /\ response' = NoResponse
    /\ finalText' = <<>>
    /\ ci' = 0
    /\ ti' = 0
    /\ call' = NoCall
    /\ chatResponse' = ""
    /\ lastOutcome' = "none"
    /\ UNCHANGED <<tools, closed, exitCode, queryNo>>
    /\ UNCHANGED startVars
    /\ UNCHANGED weatherVars

\* chatLoop: rl.question rejects (the input stream is gone); the finally
\* block closes rl, the error leaves chatLoop and main's finally block
\* awaits cleanup
ReadLineFails ==
    /\ pc = "chat_read"
    /\ pc' = "cleanup"
    /\ line' = <<>>
    /\ messages' = <<>>
    /\ gwLog' = <<>>
    /\ gwReplies' = <<>>
    /\ attempts' = <<>>
    /\ response' = NoResponse
    /\ finalText' = <<>>
    /\ ci' = 0
    /\ ti' = 0
    /\ call' = NoCall
    /\ chatResponse' = ""
    /\ lastOutcome' = "none"
    /\ UNCHANGED <<tools, closed, exitCode, queryNo, loadingInterval>>
    /\ UNCHANGED startVars
    /\ UNCHANGED weatherVars

\* the first completion resolves
FirstReply ==
    /\ pc = "await_first"
    /\ \E resp \in FirstResponses :
        /\ response' = resp
        /\ gwReplies' = Append(gwReplies, [kind |-> "reply", response |-> resp])
        /\ Resume(RunLoop(resp.choices, 1, 0, <<>>), attempts)
    /\ UNCHANGED <<tools, line, messages, gwLog, closed, exitCode>>
    /\ UNCHANGED startVars
    /\ UNCHANGED weatherVars

\* the first completion rejects
FirstFail ==
    /\ pc = "await_first"
    /\ \E e \in GatewayErrors :
        /\ gwReplies' = Append(gwReplies, [kind |-> "throw", message |-> e])
        /\ Abort(e)
    /\ UNCHANGED <<tools, line, messages, response, gwLog, attempts, closed, exitCode>>
    /\ UNCHANGED startVars
    /\ UNCHANGED weatherVars

\* mcp.callTool resolves: push the trace line and the result, await the
\* follow-up completion
ToolReturnNotAwaited ==
    /\ pc = "await_tool"
    /\ \E result \in ToolResults :
        /\ messages' = PushToolResult(messages, result)
        /\ gwLog' = Append(gwLog, FollowUpRequest(messages'))
        /\ Resume(RunLoop(response.choices, ci, ti + 1,
                          PushTrace(finalText, call.name, call.arguments)),
                  Append(attempts,
                     [toolCall |-> ToolCallAt(response.choices[ci].message.tool_calls, ti),
                      outcome |-> IF result.isError THEN "isError" ELSE "ok",
                      result |-> result]))
    /\ UNCHANGED <<tools, line, response, gwReplies, closed, exitCode>>
    /\ UNCHANGED startVars
    /\ UNCHANGED weatherVars

ToolReturn ==
    /\ pc = "await_tool"
    /\ \E result \in ToolResults :
        /\ attempts' = Append(attempts,
              [toolCall |-> ToolCallAt(response.choices[ci].message.tool_calls, ti),
               outcome |-> IF result.isError THEN "isError" ELSE "ok",
               result |-> result])
        /\ finalText' = PushTrace(finalText, call.name, call.arguments)
        /\ messages' = PushToolResult(messages, result)
        /\ gwLog' = Append(gwLog, FollowUpRequest(messages'))
    /\ pc' = "await_follow"
    /\ UNCHANGED <<tools, line, response, ci, ti, call, gwReplies, chatResponse,
                   lastOutcome, loadingInterval, closed, exitCode, queryNo>>
    /\ UNCHANGED startVars
    /\ UNCHANGED weatherVars

\* mcp.callTool rejects
ToolThrow ==
    /\ pc = "await_tool"
    /\ \E e \in ToolErrors :
        /\ attempts' = Append(attempts,
              [toolCall |-> ToolCallAt(response.choices[ci].message.tool_calls, ti),
               outcome |-> "threw", message |-> e])
        /\ Abort(e)
    /\ UNCHANGED <<tools, line, messages, response, gwLog, gwReplies, closed, exitCode>>
    /\ UNCHANGED startVars
    /\ UNCHANGED weatherVars

\* a follow-up completion resolves: push choices[0]'s text, go on with the
\* next tool call
FollowReplyNested ==
    /\ pc = "await_follow"
    /\ \E resp \in FollowUpResponses :
        /\ gwReplies' = Append(gwReplies, [kind |-> "reply", response |-> resp])
        /\ response' = [choices |-> response.choices \o resp.choices]
        /\ Resume(RunLoop(response'.choices, ci, ti + 1, finalText), attempts)
    /\ UNCHANGED <<tools, line, messages, gwLog, closed, exitCode>>
    /\ UNCHANGED startVars
    /\ UNCHANGED weatherVars

FollowReply ==
    /\ pc = "await_follow"
    /\ \E resp \in FollowUpResponses :
        /\ gwReplies' = Append(gwReplies, [kind |-> "reply", response |-> resp])
        /\ LET m == resp.choices[1].message
               ft == IF ContentTruthy(m) THEN Append(finalText, m.content) ELSE finalText
           IN  Resume(RunLoop(response.choices, ci, ti + 1, ft), attempts)
    /\ UNCHANGED <<tools, line, messages, response, gwLog, closed, exitCode>>
    /\ UNCHANGED startVars
    /\ UNCHANGED weatherVars

\* a follow-up completion rejects
FollowFail ==
    /\ pc = "await_follow"
    /\ \E e \in GatewayErrors :
        /\ gwReplies' = Append(gwReplies, [kind |-> "throw", message |-> e])
        /\ Abort(e)
    /\ UNCHANGED <<tools, line, messages, response, gwLog, attempts, closed, exitCode>>
    /\ UNCHANGED startVars
    /\ UNCHANGED weatherVars

Next ==
    \/ ModuleKeyMissing
    \/ MainUsage
    \/ MainStart
    \/ ConnectToServer
    \/ ServerKeyMissing
    \/ ConnectFail
    \/ Cleanup
    \/ ReadLine
    \/ ReadLineFails
    \/ FirstReply
    \/ FirstFail
    \/ ToolReturn
    \/ ToolThrow
    \/ FollowReply
    \/ FollowFail

Spec == Init /\ [][Next]_vars

\* the steps by which an awaited completion or tool call returns or fails
QueryStep ==
    \/ FirstReply
    \/ FirstFail
    \/ ToolReturn
    \/ ToolThrow
    \/ FollowReply
    \/ FollowFail

\* every awaited gateway and tool call eventually returns or fails
FairSpec == Spec /\ WF_vars(QueryStep)

-----------------------------------------------------------------------------
(* The registry adapter on its own: startup up to the end of connectToServer,
   with every list of at most MaxDescriptors descriptors as the tool list *)

ConnectToServerAny == ConnectWith(AllDescriptorLists)

AdaptNext ==
    \/ MainStart
    \/ ConnectToServerAny

AdaptSpec == Init /\ [][AdaptNext]_vars

-----------------------------------------------------------------------------
(* Helpers of the properties *)

Range(f) == {f[i] : i \in DOMAIN f}

Last(q) == q[Len(q)]

\* the tool calls of a message, in the order the model emitted them
ToolCallsOf(m) == IF HasToolCallsField(m) THEN m.tool_calls ELSE <<>>

\* the tool calls of all candidates of a response, in emission order
RECURSIVE FlatToolCalls(_)
FlatToolCalls(choices) ==
    IF choices = <<>> THEN <<>>
    ELSE ToolCallsOf(choices[1].message) \o FlatToolCalls(Tail(choices))

\* the user-role message the k-th tool output is passed on in
ToolOutputMessage(k) == [role |-> "user", content |-> attempts[k].result.content]

\* a follow-up completion is being awaited for the most recent tool call
FollowUpOutstanding == pc = "await_follow" /\ Len(gwLog) = Len(gwReplies) + 1

-----------------------------------------------------------------------------
(* C1 *)

\* C1 (as stated): the transcript of every follow-up completion call is the
\* user message, then the assistant message that carried the tool calls, then
\* the tool outputs so far in request order.
C1_AssistantMessageInTranscript ==
    \A k \in 2..Len(gwLog) :
        LET cur == gwLog[k].messages
        IN  /\ Len(cur) = k + 1
            /\ cur[2].role = "assistant"
            /\ \A j \in 1..(k - 1) : cur[j + 2] = ToolOutputMessage(j)

\* C1 (amended): the transcript of every follow-up completion call is the
\* transcript of the previous completion call of the query with exactly one
\* message appended, the user-role message holding the content of the tool
\* result just received; no assistant message is ever part of a transcript.
C1_FollowUpTranscript ==
    \A k \in 2..Len(gwLog) :
        /\ gwLog[k].messages = Append(gwLog[k - 1].messages, ToolOutputMessage(k - 1))
        /\ \A i \in 1..Len(gwLog[k].messages) : gwLog[k].messages[i].role = "user"

\* two follow-up calls have been issued, after tool results that differ
C1_Witness ==
    /\ FollowUpOutstanding
    /\ Len(gwLog) = 3
    /\ attempts[1].result # attempts[2].result

-----------------------------------------------------------------------------
(* C2 *)

\* C2: every failed tool execution (callTool rejected, arguments that do not
\* parse, or a result flagged isError) is followed by its follow-up
\* completion: the k-th failed call has a (k+1)-th gateway request.
C2_ToolFailureContained ==
    \A k \in 1..Len(attempts) :
        attempts[k].outcome \in {"threw", "badargs", "isError"} => Len(gwLog) >= k + 1

-----------------------------------------------------------------------------
(* C3 *)

\* C3: tool calls are executed in the order the first reply lists them, and
\* while the follow-up completion after the k-th call is awaited the executor
\* has been invoked exactly k times and the transcript passed holds the
\* outputs of calls 1..k and nothing of call k+1.
C3_ToolCallOrdering ==
    /\ \A k \in 1..Len(attempts) :
          attempts[k].toolCall = FlatToolCalls(response.choices)[k]
    /\ FollowUpOutstanding =>
          /\ Len(attempts) = Len(gwLog) - 1
          /\ Len(Last(gwLog).messages) = Len(gwLog)
          /\ \A j \in 1..Len(attempts) :
                Last(gwLog).messages[j + 1].content = attempts[j].result.content

\* the follow-up after A is awaited while a different call B is still to come
C3_Witness ==
    /\ FollowUpOutstanding
    /\ Len(attempts) = 1
    /\ Len(FlatToolCalls(response.choices)) = 2
    /\ FlatToolCalls(response.choices)[1] # FlatToolCalls(response.choices)[2]
    /\ JSONParse(FlatToolCalls(response.choices)[2].function.arguments).ok

-----------------------------------------------------------------------------
(* C4 *)

\* the query has returned to chatLoop
QueryEnded == pc = "chat_read" /\ lastOutcome # "none"

\* the final answer is the joined buffer and the buffer holds the trace line
\* of the k-th tool call
AnswerHasTraceOf(k) ==
    /\ chatResponse = Join(finalText)
    /\ TraceLine(attempts[k].toolCall.function.name,
                 JSONParse(attempts[k].toolCall.function.arguments).value)
          \in Range(finalText)

-----------------------------------------------------------------------------
(* C5, C6, C10: the output buffer *)

\* the text of a message, "" when it has none
TextOf(m) == IF HasContentField(m) THEN m.content ELSE ""

\* the buffer entry a message's text gives: none when the text is absent
TextEntry(m) == IF TextOf(m) = "" THEN <<>> ELSE <<TextOf(m)>>

\* the trace line of a tool call, written out
ExpectedTrace(toolCall) ==
    IF toolCall.function.name = "get-weather"
    THEN "[Calling tool get-weather with args {\"city\":\"bj\"}]"
    ELSE "[Calling tool read_file with args {\"path\":\"a\"}]"

\* the text of the first candidate of the k-th follow-up reply
FollowUpEntry(k) == TextEntry(gwReplies[k + 1].response.choices[1].message)

\* trace line and follow-up text of each call of a list, the first of them
\* being the k-th call of the query
RECURSIVE CallEntries(_, _)
CallEntries(calls, k) ==
    IF calls = <<>> THEN <<>>
    ELSE <<ExpectedTrace(calls[1])>> \o FollowUpEntry(k) \o CallEntries(Tail(calls), k + 1)

QueryCompleted == pc = "chat_read" /\ lastOutcome = "ok"

\* C5: the final answer of a query that completes without an exception is
\* the newline-joined buffer made of the first reply's text (if present) and
\* then, for each tool call in request order, its trace line immediately
\* followed by its follow-up text (if present).
C5_FinalAnswerLayout ==
    QueryCompleted =>
        chatResponse = Join(TextEntry(response.choices[1].message)
                            \o CallEntries(FlatToolCalls(response.choices), 1))

\* C6: when the first reply has no tool calls the final answer is the reply's
\* text, no tool is executed and no follow-up completion is issued.
C6_NoToolCallsAnswerIsText ==
    (QueryCompleted /\ FlatToolCalls(response.choices) = <<>>) =>
        /\ chatResponse = TextOf(response.choices[1].message)
        /\ attempts = <<>>
        /\ Len(gwLog) = 1

\* C10: of the candidates of the first reply only the first is consumed: no
\* tool call beyond those of the first candidate is worked on, and the final
\* answer is built from the first candidate alone.
C10_OnlyFirstCandidateConsumed ==
    /\ response # NoResponse =>
          Len(attempts) <= Len(ToolCallsOf(response.choices[1].message))
    /\ QueryCompleted =>
          chatResponse = Join(TextEntry(response.choices[1].message)
                              \o CallEntries(ToolCallsOf(response.choices[1].message), 1))

-----------------------------------------------------------------------------
(* C7 *)

\* C7: the transcript passed to the first completion call of every query
\* holds one message, the user message with the line just read.
C7_TranscriptIsolation ==
    gwLog # <<>> => gwLog[1].messages = <<[role |-> "user", content |-> line]>>

\* the first completion of a later query is awaited
C7_Witness == pc = "await_first" /\ queryNo >= 1

-----------------------------------------------------------------------------
(* C8 *)

GatewayThrew == gwReplies # <<>> /\ Last(gwReplies).kind = "throw"

ExecutorThrew == attempts # <<>> /\ Last(attempts).outcome = "threw"

\* C8: once the gateway or the tool executor has thrown, the query is over:
\* chatLoop holds the error message "Error: <message>", the timer is cleared,
\* the transport is open, the process runs and chatLoop waits for a line.
C8_ExceptionAbortsQueryOnly ==
    (GatewayThrew \/ ExecutorThrew) =>
        /\ pc = "chat_read"
        /\ lastOutcome = "error"
        /\ chatResponse = "Error: " \o Last(IF GatewayThrew THEN gwReplies ELSE attempts).message
        /\ loadingInterval = 0
        /\ ~closed
        /\ exitCode = -1

\* an exception of the executor after an earlier tool call went through
C8_Witness ==
    /\ ExecutorThrew
    /\ Len(attempts) = 2
    /\ pc = "chat_read"

-----------------------------------------------------------------------------
(* C9 *)

\* C9: after a line that is "quit" in some casing the loop is left with no
\* completion call made for the line, and the process ends with code 0 and
\* the transport closed; any other line is passed to processQuery, whose
\* first completion call carries it.
C9_QuitSentinel ==
    /\ line \in QuitCasings =>
          /\ pc \in {"cleanup", "exited"}
          /\ gwLog = <<>>
          /\ pc = "exited" => (exitCode = 0 /\ closed)
    /\ line \in OtherLines =>
          /\ pc \in {"await_first", "await_tool", "await_follow", "chat_read"}
          /\ gwLog # <<>>
          /\ gwLog[1].messages[1].content = line
          /\ exitCode = -1

\* "QuIt" was typed after a query had been processed, and the process exited
C9_Witness ==
    /\ pc = "exited"
    /\ line = <<"Q", "u", "I", "t">>
    /\ queryNo >= 1
    /\ exitCode = 0

-----------------------------------------------------------------------------
(* C11 *)

\* the tool calls that came back with a result so far
Executed == SelectSeq(attempts, LAMBDA a : a.outcome \in {"ok", "isError"})

\* C11: the first completion call of a query carries the tool registry and
\* no follow-up call does; each follow-up call is issued with the output of
\* the tool call just executed as the last message, one per executed call;
\* a query that completes without an exception, its first reply holding n
\* tool calls over all its candidates, has made 1 + n completion calls.
C11_OneFollowUpPerToolCall ==
    /\ gwLog # <<>> =>
          /\ "tools" \in DOMAIN gwLog[1]
          /\ gwLog[1].tools = tools
    /\ \A k \in 2..Len(gwLog) :
          /\ "tools" \notin DOMAIN gwLog[k]
          /\ Last(gwLog[k].messages) = ToolOutputMessage(k - 1)
    /\ gwLog # <<>> => Len(gwLog) = 1 + Len(Executed)
    /\ QueryCompleted =>
          /\ Len(gwLog) = 1 + Len(FlatToolCalls(response.choices))
          /\ Len(attempts) = Len(FlatToolCalls(response.choices))

\* a query with two tool calls has completed, with a registry of two tools
C11_Witness ==
    /\ QueryCompleted
    /\ Len(FlatToolCalls(response.choices)) = 2
    /\ Len(gwLog) = 3
    /\ Len(tools) = 2

-----------------------------------------------------------------------------
(* C12 *)

\* C12: the registry holds one callable tool per descriptor of the tool list,
\* in the order of the list, with the descriptor's name and input schema and
\* its description, which is undefined (empty) when the descriptor has none.
C12_AdapterTotalOrderPreserving ==
    /\ Len(tools) = Len(toolsResult)
    /\ \A i \in 1..Len(toolsResult) :
          /\ tools[i].type = "function"
          /\ tools[i].function.name = toolsResult[i].name
          /\ tools[i].function.parameters = toolsResult[i].inputSchema
          /\ tools[i].function.description =
                (IF "description" \in DOMAIN toolsResult[i]
                 THEN toolsResult[i].description ELSE Undefined)

\* a list of two descriptors of the same name, the second without description
C12_Witness ==
    /\ connected = "yes"
    /\ Len(toolsResult) = 2
    /\ toolsResult[1].name = toolsResult[2].name
    /\ "description" \in DOMAIN toolsResult[1]
    /\ "description" \notin DOMAIN toolsResult[2]
    /\ Len(tools) = 2

-----------------------------------------------------------------------------
(* C13 *)

IsPrefix(a, b) == Len(a) <= Len(b) /\ \A i \in 1..Len(a) : a[i] = b[i]

\* C13: within a query the transcript of each completion call extends the
\* transcript of the call before it, entry for entry, and the transcript the
\* query holds is the one passed to its latest completion call.
C13_TranscriptAppendOnly ==
    /\ \A k \in 2..Len(gwLog) : IsPrefix(gwLog[k - 1].messages, gwLog[k].messages)
    /\ gwLog # <<>> => messages = Last(gwLog).messages

\* a query whose transcript grew twice has completed
C13_Witness ==
    /\ QueryCompleted
    /\ Len(gwLog) = 3
    /\ Len(messages) = 3

-----------------------------------------------------------------------------
(* C14 *)

\* completion calls that have not returned yet
GatewayOutstanding == Len(gwLog) - Len(gwReplies)

\* mcp.callTool calls that have not returned yet: processQuery is suspended
\* at the await of mcp.callTool
ToolOutstanding == IF pc = "await_tool" THEN 1 ELSE 0

\* C14: at most one completion or tool request is outstanding; none is while
\* chatLoop waits for a line or the process shuts down; and while the
\* executor works on a tool call, every earlier tool call has returned its
\* result and every completion call issued so far has returned its reply.
C14_SingleFlight ==
    /\ GatewayOutstanding \in {0, 1}
    /\ GatewayOutstanding + ToolOutstanding <= 1
    /\ pc \in {"chat_read", "cleanup", "exited"} =>
          GatewayOutstanding + ToolOutstanding = 0
    /\ pc \in {"await_first", "await_follow"} => GatewayOutstanding = 1
    /\ ToolOutstanding = 1 =>
          /\ Len(gwReplies) = 1 + Len(attempts)
          /\ \A k \in 1..Len(attempts) : attempts[k].outcome \in {"ok", "isError"}
          /\ \A k \in 1..Len(gwReplies) : gwReplies[k].kind = "reply"

\* the executor works on the second tool call of a reply
C14_Witness ==
    /\ ToolOutstanding = 1
    /\ Len(attempts) = 1
    /\ Len(gwReplies) = 2

-----------------------------------------------------------------------------
(* C15 *)

\* processQuery has been called by chatLoop and has not returned yet
InQuery == pc \in {"await_first", "await_tool", "await_follow"}

\* C15: at most one busy-indicator timer is active at any moment; exactly one
\* is while the awaited processQuery call runs, and none is whenever that
\* call has returned, with an answer or with an error text: while the driver
\* waits for a line, and during and after the shutdown.
C15_LoadingTimerCancelled ==
    /\ loadingInterval \in {0, 1}
    /\ InQuery => loadingInterval = 1
    /\ ~InQuery => loadingInterval = 0

\* a query that ended with an error has returned to the prompt
C15_Witness ==
    /\ pc = "chat_read"
    /\ lastOutcome = "error"
    /\ attempts # <<>>
    /\ loadingInterval = 0

-----------------------------------------------------------------------------
(* C16 *)

\* the environment variable is unset or empty
Unset(key) == key \in {Undefined, ""}

\* C16: with OPENAI_API_KEY unset the client process can only end, with exit
\* status 1, with no server spawned, no transport connected or closed and no
\* line read; with XINGZHI_API_KEY unset the weather server can only end with
\* exit status 1 while it loads, so the client never gets a connection or a
\* registry, never reads a line and never calls the gateway or a tool.
C16_MissingKeyFatal ==
    /\ Unset(OPENAI_API_KEY) =>
          /\ pc \in {"module", "exited"}
          /\ pc = "exited" => exitCode = 1
          /\ server = "unspawned"
          /\ connected = "no"
          /\ ~closed
          /\ line = <<>> /\ gwLog = <<>> /\ queryNo = 0
    /\ Unset(XINGZHI_API_KEY) =>
          /\ server \in {"unspawned", "exit1"}
          /\ connected # "yes"
          /\ server = "exit1" => connected = "failed"
          /\ toolsResult = <<>> /\ tools = <<>>
          /\ line = <<>> /\ gwLog = <<>> /\ attempts = <<>> /\ queryNo = 0

\* the weather server was spawned without its key and has ended
C16_Witness ==
    /\ XINGZHI_API_KEY = Undefined
    /\ server = "exit1"
    /\ pc = "exited"

\* the client was started without its key and has ended
C16_ClientWitness ==
    /\ Unset(OPENAI_API_KEY)
    /\ pc = "exited"
    /\ exitCode = 1

-----------------------------------------------------------------------------
(* C17 *)

\* C17: once connectToServer has failed, main is in or past its finally
\* block: chatLoop is never entered, no registry is stored, no line is read,
\* no timer is started and nothing is sent to the gateway or to a tool.
C17_ConnectFailureAbortsStartup ==
    connected = "failed" =>
        /\ pc \in {"cleanup", "exited"}
        /\ tools = <<>>
        /\ line = <<>> /\ messages = <<>>
        /\ gwLog = <<>> /\ attempts = <<>>
        /\ loadingInterval = 0
        /\ queryNo = 0
        /\ pc = "exited" => exitCode = 0

\* mcp.connect or mcp.listTools rejected with the server running, and main
\* has left through its finally block
C17_Witness ==
    /\ connected = "failed"
    /\ server = "killed"
    /\ pc = "exited"

-----------------------------------------------------------------------------
(* C18 *)

\* main has left after new MCPClient(): connectToServer was awaited and has
\* resolved or rejected
LeftAfterConstruction == pc = "exited" /\ connected # "no"

\* the transport is closed in every state where main has left after
\* constructing the client; once it is closed, the process has ended, the
\* server no longer runs and no gateway or tool call is outstanding
TransportClosedAtExit ==
    /\ LeftAfterConstruction => closed /\ exitCode = 0
    /\ closed =>
          /\ pc = "exited"
          /\ connected # "no"
          /\ server # "running"
          /\ GatewayOutstanding = 0 /\ ToolOutstanding = 0

\* a step keeps the outcome of the one connectToServer call, never restarts a
\* server that has ended, and after the close issues no gateway or tool call
OneSessionStep ==
    /\ connected # "no" => connected' = connected
    /\ server \in {"killed", "exit1"} => server' = server
    /\ closed => closed' /\ gwLog' = gwLog /\ attempts' = attempts /\ pc' = pc

\* C18: one session per process, closed through cleanup on every path by
\* which main leaves after constructing the client (connect failure, quit, an
\* exception that leaves chatLoop), and no gateway or tool call after the
\* close.
C18_SessionLifecycle == []TransportClosedAtExit /\ [][OneSessionStep]_vars

\* rl.question rejected after a query, and main has left through cleanup
C18_Witness ==
    /\ pc = "exited"
    /\ closed
    /\ connected = "yes"
    /\ server = "killed"
    /\ line = <<>>
    /\ queryNo = 1

-----------------------------------------------------------------------------
(* C19 *)

\* the query ended in processQuery's catch block
QueryAborted == pc = "chat_read" /\ lastOutcome = "error"

\* the message of the exception that ended the query
AbortMessage ==
    IF GatewayThrew THEN Last(gwReplies).message
    ELSE IF Last(attempts).outcome = "threw" THEN Last(attempts).message
    ELSE JSONParse(Last(attempts).toolCall.function.arguments).message

\* C19: processQuery always returns to chatLoop, with the joined buffer or
\* from its catch block; from the catch block the value is exactly
\* "Error: <message>" of the exception that was thrown, whatever text and
\* trace lines the buffer holds, while the outputs of the k tool calls
\* executed before the exception are in the transcript.
C19_ErrorReturnDropsBuffer ==
    /\ lastOutcome \in {"none", "ok", "error"}
    /\ InQuery <=> lastOutcome = "none" /\ line \in OtherLines
    /\ QueryAborted =>
          /\ GatewayThrew \/ (attempts # <<>> /\ Last(attempts).outcome \in {"threw", "badargs"})
          /\ chatResponse = "Error: " \o AbortMessage
          /\ Len(messages) = 1 + Len(Executed)
          /\ \A k \in 1..Len(Executed) : messages[1 + k].content = Executed[k].result.content

\* the gateway failed on a follow-up call, after a tool call was executed and
\* its trace line pushed
C19_Witness ==
    /\ QueryAborted
    /\ GatewayThrew
    /\ Len(Executed) >= 1
    /\ finalText # <<>>

-----------------------------------------------------------------------------
(* C20 *)

\* the tool calls of the first reply of the query, over all its candidates
FirstReplyToolCalls ==
    IF gwReplies # <<>> /\ gwReplies[1].kind = "reply"
    THEN FlatToolCalls(gwReplies[1].response.choices)
    ELSE <<>>

\* some follow-up reply of the query carried tool calls
FollowUpCarriedToolCalls ==
    \E k \in 2..Len(gwReplies) :
        /\ gwReplies[k].kind = "reply"
        /\ HasToolCallsField(gwReplies[k].response.choices[1].message)

\* the tool calls handed to the executor are tool calls of the first reply,
\* in order; there are at most n of them and at most 1 + n completion calls
WorkBounded ==
    LET n == Len(FirstReplyToolCalls) IN
    /\ Len(attempts) <= n
    /\ Len(gwLog) <= 1 + n
    /\ \A k \in 1..Len(attempts) : attempts[k].toolCall = FirstReplyToolCalls[k]
    /\ pc = "await_tool" => Len(attempts) < n

\* C20: tool calls carried by a follow-up reply are never executed: with n
\* the number of tool calls in the first reply, a query makes at most n tool
\* executions and at most 1 + n completion calls, and when every awaited
\* call returns or fails processQuery returns to chatLoop.
C20_FollowUpToolCallsNotExecuted == []WorkBounded /\ (InQuery ~> ~InQuery)

\* a query completed although a follow-up reply carried tool calls
C20_Witness ==
    /\ QueryCompleted
    /\ FollowUpCarriedToolCalls
    /\ Len(attempts) = Len(FirstReplyToolCalls)
    /\ Len(gwLog) = 1 + Len(FirstReplyToolCalls)

-----------------------------------------------------------------------------
(* The weather server: the get-weather tool *)

\* A number of the tool arguments is held in halves, so that fractions can
\* be told from integers: 6 is 3 and 5 is 2.5.
Num(whole) == 2 * whole
IsInt(x) == x % 2 = 0

\* value.toString() of a number from 0 to 9.5
NumToString(x) ==
    LET digits == <<"0", "1", "2", "3", "4", "5", "6", "7", "8", "9">>
    IN  digits[(x \div 2) + 1] \o (IF IsInt(x) THEN "" ELSE ".5")

SENIVERSE_API_BASE == "https://api.seniverse.com/v3"

Languages == {"zh-Hans", "zh-Hant", "en", "ja"}
Units == {"c", "f"}

\* arguments a get-weather call can arrive with
Cities == {"beijing", "shanghai"}
RawDays == {0, Num(1), 5, Num(3), Num(7), Num(8)}
RawLanguages == {"en", "fr"}
RawUnits == {"f", "k"}
RawInputs ==
    [city : Cities, days : RawDays, language : RawLanguages, unit : RawUnits]
        \cup [city : Cities, language : RawLanguages, unit : RawUnits]
        \cup [city : Cities, days : RawDays]
        \cup [city : Cities]
        \cup [days : {Num(3)}]

\* the parameter schema of server.tool("get-weather", ...): city is
\* required, days is a number from 1 to 7 (default 3), language and unit are
\* enumerations with defaults
ToolSchemaParse(raw) ==
    LET has(k) == k \in DOMAIN raw IN
    IF /\ has("city")
       /\ has("days") => (raw.days >= Num(1) /\ raw.days <= Num(7))
       /\ has("language") => raw.language \in Languages
       /\ has("unit") => raw.unit \in Units
    THEN [ok |-> TRUE,
          value |-> [city |-> raw.city,
                     days |-> IF has("days") THEN raw.days ELSE Num(3),
                     language |-> IF has("language") THEN raw.language ELSE "zh-Hans",
                     unit |-> IF has("unit") THEN raw.unit ELSE "c"]]
    ELSE [ok |-> FALSE]

\* the handler: const apiParams = { key, location, language, unit, start, days }
ApiParams(key, input) ==
    [key |-> key, location |-> input.city, language |-> input.language,
     unit |-> input.unit, start |-> 0, days |-> input.days]

\* WeatherApiParams.parse(params): language and unit in their enumerations,
\* start an integer >= 0, days an integer from 1 to 7.  The text of the
\* ZodError is given in short.
WeatherApiParamsParse(params) ==
    IF params.language \notin Languages THEN [ok |-> FALSE, message |-> "language: Invalid enum value"]
    ELSE IF params.unit \notin Units THEN [ok |-> FALSE, message |-> "unit: Invalid enum value"]
    ELSE IF ~IsInt(params.start) THEN [ok |-> FALSE, message |-> "start: Expected integer, received float"]
    ELSE IF params.start < 0 THEN [ok |-> FALSE, message |-> "start: Number must be greater than or equal to 0"]
    ELSE IF ~IsInt(params.days) THEN [ok |-> FALSE, message |-> "days: Expected integer, received float"]
    ELSE IF params.days < Num(1) THEN [ok |-> FALSE, message |-> "days: Number must be greater than or equal to 1"]
    ELSE IF params.days > Num(7) THEN [ok |-> FALSE, message |-> "days: Number must be less than or equal to 7"]
    ELSE [ok |-> TRUE, value |-> params]

\* buildWeatherApiUrl: the query string lists the validated parameters in
\* the order of the schema; a ZodError is caught and returned.  (The texts
\* the server returns are Chinese in the source and given in English here.)
buildWeatherApiUrl(params) ==
    LET parsed == WeatherApiParamsParse(params) IN
    IF parsed.ok
    THEN LET v == parsed.value IN
         [success |-> TRUE,
          url |-> SENIVERSE_API_BASE \o "/weather/daily.json?key=" \o v.key
                  \o "&location=" \o v.location \o "&language=" \o v.language
                  \o "&unit=" \o v.unit \o "&start=" \o NumToString(v.start)
                  \o "&days=" \o NumToString(v.days)]
    ELSE [success |-> FALSE, error |-> "parameter validation failed: " \o parsed.message]

\* what the weather API can answer a request with: no answer at all, a
\* status outside 200-299, a body that is not JSON, or a JSON body
JsonNull == [null |-> TRUE]
Location == [name |-> "Beijing", path |-> "Beijing,Beijing,China"]
Daily ==
    [date |-> "2026-11-01", text_day |-> "Sunny", high |-> "20",
     text_night |-> "Clear", low |-> "9", rainfall |-> "0.0",
     wind_direction |-> "N", wind_speed |-> "15", humidity |-> "40"]
ApiData ==
    {JsonNull,
     [status |-> "The location can not be found."],
     [results |-> <<>>],
     [results |-> <<[location |-> Location, last_update |-> "08:00"]>>],
     [results |-> <<[location |-> Location, daily |-> <<>>, last_update |-> "08:00"]>>],
     [results |-> <<[location |-> Location, daily |-> <<Daily>>, last_update |-> "08:00"]>>],
     [results |-> <<[location |-> Location, daily |-> <<Daily, Daily>>]>>],
     [results |-> <<[daily |-> <<Daily>>, last_update |-> "08:00"]>>]}
FetchOutcomes ==
    {[kind |-> "reject", message |-> "getaddrinfo ENOTFOUND"],
     [kind |-> "status", status |-> 403],
     [kind |-> "badjson", message |-> "Unexpected token < in JSON"]}
        \cup {[kind |-> "json", data |-> d] : d \in ApiData}

\* makeSeniverseRequest: the parsed body, or null after any error
makeSeniverseRequest(outcome) ==
    IF outcome.kind = "json" THEN outcome.data ELSE JsonNull

\* formatDailyForecast
formatDailyForecast(dailyData) ==
    Join(<<"date: " \o Property(dailyData, "date"),
           "day: " \o Property(dailyData, "text_day") \o " (" \o Property(dailyData, "high") \o "C)",
           "night: " \o Property(dailyData, "text_night") \o " (" \o Property(dailyData, "low") \o "C)",
           "rainfall: " \o Property(dailyData, "rainfall") \o "mm",
           "wind: " \o Property(dailyData, "wind_direction") \o " (" \o Property(dailyData, "wind_speed") \o "km/h)",
           "humidity: " \o Property(dailyData, "humidity") \o "%",
           "---">>)

\* a tool result with one text block
TextResult(text) == [content |-> <<[type |-> "text", text |-> text]>>]

\* the handler returned result, or threw
Returned(result) == [kind |-> "return", result |-> result]
Threw(message) == [kind |-> "throw", message |-> message]

\* the get-weather handler from the return of makeSeniverseRequest on
HandlerAfterFetch(input, weatherData) ==
    IF weatherData = JsonNull
    THEN Returned(TextResult("failed to get the weather data of " \o input.city))
    ELSE
    LET results == IF "results" \in DOMAIN weatherData THEN weatherData.results ELSE <<>> IN
    IF Len(results) = 0
    THEN Returned(TextResult("no weather information found for " \o input.city))
    ELSE
    LET result == results[1]
        dailyForecasts == IF "daily" \in DOMAIN result THEN result.daily ELSE <<>>
    IN
    IF Len(dailyForecasts) = 0
    THEN Returned(TextResult("no forecast data found for " \o input.city))
    ELSE IF "location" \notin DOMAIN result
    THEN Threw("Cannot read properties of undefined (reading 'name')")
    ELSE Returned(TextResult(Join(
            <<result.location.name \o " (" \o result.location.path \o ")",
              "last update: " \o Property(result, "last_update"),
              NumToString(input.days) \o " day forecast:",
              "",
              Join([i \in 1..Len(dailyForecasts) |-> formatDailyForecast(dailyForecasts[i])])>>)))


clientVars == <<OPENAI_API_KEY, XINGZHI_API_KEY, connected, toolsResult, pc,
                tools, closed, exitCode>>

\* the server module loads: without its key it exits with status 1
WeatherLoad ==
    /\ server = "unspawned"
    /\ server' = IF KeyMissing(ServerEnvKey(XINGZHI_API_KEY)) THEN "exit1" ELSE "running"
    /\ UNCHANGED weatherVars
    /\ UNCHANGED clientVars
    /\ UNCHANGED queryVars

\* a get-weather call arrives: arguments outside the tool's schema never
\* reach the handler; the handler builds the URL and returns the validation
\* error or awaits makeSeniverseRequest, which awaits fetch
GetWeather ==
    /\ server = "running"
    /\ weatherPc \in {"idle", "done"}
    /\ \E raw \in RawInputs :
        LET parsed == ToolSchemaParse(raw) IN
        IF ~parsed.ok
        THEN /\ toolInput' = NoInput
             /\ urlResult' = NoUrlResult
             /\ fetched' = <<>>
             /\ toolOutput' = [kind |-> "invalid"]
             /\ weatherPc' = "done"
        ELSE /\ toolInput' = parsed.value
             /\ urlResult' = buildWeatherApiUrl(ApiParams(ServerEnvKey(XINGZHI_API_KEY), parsed.value))
             /\ IF urlResult'.success
                THEN /\ fetched' = <<urlResult'.url>>
                     /\ toolOutput' = NoOutput
                     /\ weatherPc' = "fetching"
                ELSE /\ fetched' = <<>>
                     /\ toolOutput' = Returned(TextResult(urlResult'.error))
                     /\ weatherPc' = "done"
    /\ UNCHANGED server
    /\ UNCHANGED clientVars
    /\ UNCHANGED queryVars

\* fetch settles: makeSeniverseRequest returns the body or null and the
\* handler runs to its end
FetchSettles ==
    /\ weatherPc = "fetching"
    /\ \E outcome \in FetchOutcomes :
        toolOutput' = HandlerAfterFetch(toolInput, makeSeniverseRequest(outcome))
    /\ weatherPc' = "done"
    /\ UNCHANGED <<server, toolInput, urlResult, fetched>>
    /\ UNCHANGED clientVars
    /\ UNCHANGED queryVars

WeatherNext ==
    \/ WeatherLoad
    \/ GetWeather
    \/ FetchSettles

WeatherSpec == Init /\ [][WeatherNext]_vars

-----------------------------------------------------------------------------
(* C21 *)

\* the parameters WeatherApiParams accepts: days an integer from 1 to 7,
\* language and unit in their enumerations (start is the constant 0)
ParametersValid(input) ==
    /\ IsInt(input.days) /\ input.days >= Num(1) /\ input.days <= Num(7)
    /\ input.language \in Languages
    /\ input.unit \in Units

\* a request is sent only for validated parameters, with the URL built
RequestOnlyIfValidated ==
    fetched # <<>> =>
        /\ ParametersValid(toolInput)
        /\ urlResult.success
        /\ fetched = <<urlResult.url>>

\* the handler ran to its end
HandlerEnded == weatherPc = "done" /\ toolOutput.kind \in {"return", "throw"}

\* the handler returned a result of exactly one text block
OneTextBlock ==
    /\ toolOutput.kind = "return"
    /\ Len(toolOutput.result.content) = 1
    /\ toolOutput.result.content[1].type = "text"

\* C21: the get-weather handler sends an HTTP request only for parameters
\* that buildWeatherApiUrl validated, buildWeatherApiUrl always returns a
\* record with a success flag, and whenever the handler has ended it has
\* returned a result with exactly one text content block.
C21_GetWeatherHandlerTotal ==
    /\ RequestOnlyIfValidated
    /\ "success" \in DOMAIN urlResult
    /\ HandlerEnded => OneTextBlock

\* what holds of the handler's end: one text block on the five paths the
\* handler provides for, a TypeError when the first result has a forecast
\* and no location
OneTextBlockOrTypeError ==
    HandlerEnded =>
        \/ OneTextBlock
        \/ /\ toolOutput.kind = "throw"
           /\ fetched # <<>>

====
